---- MODULE Spec2Model ----
(***************************************************************************)
(* The zram compression-stream pool of drivers/block/zram/zcomp.c: the     *)
(* single-stream backend (one stream behind a mutex), the multi-stream     *)
(* backend (idle list, avail_strm/max_strm bookkeeping under a spinlock,   *)
(* a wait queue) and the zcomp facade that creates and destroys them.      *)
(*                                                                         *)
(* Every spinlock-protected section is one atomic step of the thread that  *)
(* runs it; what a thread does between two sections (the allocation of a   *)
(* new stream, wake_up, zcomp_strm_free) is a step of its own, so that     *)
(* other threads interleave exactly where the code lets them.              *)
(***************************************************************************)
EXTENDS Integers, Sequences, FiniteSets, TLC

\* ------------------------------------------------------------------ bounds
\* number of threads that call zcomp_stream_get / zcomp_stream_put
NThreads == 3
\* largest max_strm / num_strm a caller passes
MaxCap == 3
\* number of zcomp_strm objects memory has room for at the same time
NStrm == 3

\* ------------------------------------------------------- program constants
NULL == 0
EINVAL == 22
ENOMEM == 12
CONFIG_ZRAM_LZ4_COMPRESS == TRUE

Threads == 1..NThreads
StrmIds == 1..NStrm

\* A C string is the tuple of its characters (without the final NUL).
NoName == <<>>
NL == "\n"
lzo == <<"l", "z", "o">>
lz4 == <<"l", "z", "4">>
\* the names callers try: supported ones, with and without the trailing newline
\* a write to sysfs carries, and unsupported ones
Names == {lzo, lzo \o <<NL>>, lz4, lz4 \o <<NL>>, <<"l", "z">>, lzo \o <<NL, NL>>, <<NL>>, <<>>}
\* max_strm values handed to zcomp_create
CreateArgs == (0 - 1)..MaxCap
\* num_strm values handed to zcomp_set_max_streams
NumStrms == 1..MaxCap

VARIABLES
    mode,        \* which backend comp's function pointers name: "none" (no comp), "single", "multi"
    heap,        \* the objects currently allocated
    max_strm,    \* zcomp_strm_multi.max_strm
    avail_strm,  \* zcomp_strm_multi.avail_strm
    idle_strm,   \* zcomp_strm_multi.idle_strm, head first
    single_zstrm,\* zcomp_strm_single.zstrm
    single_lock, \* zcomp_strm_single.strm_lock is held
    pc,          \* where each thread is
    zstrm,       \* each thread's stream pointer (the zstrm local / the caller's stream)
    ret,         \* what the last zcomp_create / zcomp_set_max_streams returned
    hist,        \* history: "none" without a pool; "fresh" from zcomp_create to the first
                 \* release or set_max_streams; "shrunk" since a set_max_streams that lowered
                 \* max_strm below the number of streams then held (and no other since);
                 \* "used" otherwise
    dfree        \* history: an object was freed that was not allocated

vars == <<mode, heap, max_strm, avail_strm, idle_strm, single_zstrm, single_lock,
          pc, zstrm, ret, hist, dfree>>

\* ------------------------------------------------------------------- heap
CompObj == <<"comp", 0>>
ZsObj == <<"zs", 0>>
StrmObj(s) == <<"zstrm", s>>
TfmObj(s) == <<"tfm", s>>
BufObj(s) == <<"buffer", s>>
StrmParts(s) == {StrmObj(s), TfmObj(s), BufObj(s)}

\* the streams that are completely allocated
Allocated(h) == {s \in StrmIds : StrmParts(s) \subseteq h}

\* ------------------------------------------------------- backend registry
backends ==
    IF CONFIG_ZRAM_LZ4_COMPRESS THEN <<lzo, lz4, NoName>> ELSE <<lzo, NoName>>

\* lib/string.c: equal, or equal up to one trailing newline on either side
sysfs_streq(s1, s2) ==
    \/ s1 = s2
    \/ s1 = s2 \o <<NL>>
    \/ s1 \o <<NL>> = s2

RECURSIVE find_backend_from(_, _)
find_backend_from(compress, i) ==
    IF backends[i] = NoName THEN i
    ELSE IF sysfs_streq(compress, backends[i]) THEN i
    ELSE find_backend_from(compress, i + 1)

find_backend(compress) == backends[find_backend_from(compress, 1)]

zcomp_available_algorithm(comp) == find_backend(comp) # NoName

\* ---------------------------------------------------------------- streams
\* zcomp_strm_free: the tfm when it is valid, the buffer pages (free_pages
\* ignores a zero address), the structure
zcomp_strm_free(h, s) == h \ StrmParts(s)

\* the outcomes of the three allocations of zcomp_strm_alloc: what kmalloc returns
\* (NULL or the address of an object that is not allocated), whether
\* crypto_alloc_comp returns a valid tfm, whether __get_free_pages returns pages
AllocOutcomes(h) ==
    {o \in [strm : StrmIds \cup {NULL}, tfm : BOOLEAN, buf : BOOLEAN] :
        /\ o.strm # NULL => StrmObj(o.strm) \notin h
        /\ o.strm = NULL => (~o.tfm /\ ~o.buf)}

\* zcomp_strm_alloc that returns NULL for a half-built stream without freeing it
zcomp_strm_alloc_leaks(h, o) ==
    IF o.strm = NULL THEN [heap |-> h, zstrm |-> NULL]
    ELSE LET s == o.strm
             h1 == h \cup {StrmObj(s)}
                     \cup (IF o.tfm THEN {TfmObj(s)} ELSE {})
                     \cup (IF o.buf THEN {BufObj(s)} ELSE {})
         IN  [heap |-> h1, zstrm |-> IF ~o.tfm \/ ~o.buf THEN NULL ELSE s]

zcomp_strm_alloc(h, o) ==
    IF o.strm = NULL THEN [heap |-> h, zstrm |-> NULL]
    ELSE LET s == o.strm
             h1 == h \cup {StrmObj(s)}
                     \cup (IF o.tfm THEN {TfmObj(s)} ELSE {})
                     \cup (IF o.buf THEN {BufObj(s)} ELSE {})
         IN  IF ~o.tfm \/ ~o.buf
             THEN [heap |-> zcomp_strm_free(h1, s), zstrm |-> NULL]
             ELSE [heap |-> h1, zstrm |-> s]


\* freeing the streams of fl, in order, frees something that is not allocated
RECURSIVE FreeFault(_, _)
FreeFault(h, fl) ==
    IF fl = <<>> THEN FALSE
    ELSE StrmObj(Head(fl)) \notin h \/ FreeFault(zcomp_strm_free(h, Head(fl)), Tail(fl))

\* ------------------------------------------------------------ construction
\* zcomp_strm_multi_create; o.zs and o.strm are the outcomes of its allocations
zcomp_strm_multi_create(h, max, o) ==
    IF ~o.zs THEN [error |-> 0 - ENOMEM, heap |-> h]
    ELSE LET r == zcomp_strm_alloc(h \cup {ZsObj}, o.strm)
         IN  IF r.zstrm = NULL
             THEN [error |-> 0 - ENOMEM, heap |-> r.heap \ {ZsObj}]
             ELSE [error |-> 0, heap |-> r.heap, max_strm |-> max,
                   avail_strm |-> 1, idle_strm |-> <<r.zstrm>>]

\* zcomp_strm_single_create
zcomp_strm_single_create(h, o) ==
    IF ~o.zs THEN [error |-> 0 - ENOMEM, heap |-> h]
    ELSE LET r == zcomp_strm_alloc(h \cup {ZsObj}, o.strm)
         IN  IF r.zstrm = NULL
             THEN [error |-> 0 - ENOMEM, heap |-> r.heap \ {ZsObj}]
             ELSE [error |-> 0, heap |-> r.heap, zstrm |-> r.zstrm]

CreateOutcomes(h) ==
    {o \in [comp : BOOLEAN, zs : BOOLEAN, strm : AllocOutcomes(h)] :
        /\ ~o.comp => ~o.zs
        /\ ~o.zs => o.strm.strm = NULL}

Init ==
    /\ mode = "none"
    /\ heap = {}
    /\ max_strm = 0
    /\ avail_strm = 0
    /\ idle_strm = <<>>
    /\ single_zstrm = NULL
    /\ single_lock = FALSE
    /\ pc = [t \in Threads |-> "out"]
    /\ zstrm = [t \in Threads |-> NULL]
    /\ ret = [op |-> "none", val |-> 0]
    /\ hist = "none"
    /\ dfree = FALSE

\* zcomp_create that takes the multi-stream pool from one stream up
zcomp_create_multi_from_one(compress, max, o) ==
    /\ mode = "none"
    /\ UNCHANGED <<pc, zstrm, single_lock, dfree>>
    /\ IF find_backend(compress) = NoName
       THEN /\ ret' = [op |-> "create", val |-> 0 - EINVAL]
            /\ UNCHANGED <<mode, heap, max_strm, avail_strm, idle_strm, single_zstrm, hist>>
       ELSE IF ~o.comp
       THEN /\ ret' = [op |-> "create", val |-> 0 - ENOMEM]
            /\ UNCHANGED <<mode, heap, max_strm, avail_strm, idle_strm, single_zstrm, hist>>
       ELSE IF max > 0
       THEN LET r == zcomp_strm_multi_create(heap \cup {CompObj}, max, o)
            IN  IF r.error # 0
                THEN /\ heap' = r.heap \ {CompObj}
                     /\ ret' = [op |-> "create", val |-> r.error]
                     /\ UNCHANGED <<mode, max_strm, avail_strm, idle_strm, single_zstrm, hist>>
                ELSE /\ heap' = r.heap
                     /\ mode' = "multi"
                     /\ max_strm' = r.max_strm
                     /\ avail_strm' = r.avail_strm
                     /\ idle_strm' = r.idle_strm
                     /\ ret' = [op |-> "create", val |-> 0]
                     /\ hist' = "fresh"
                     /\ UNCHANGED single_zstrm
       ELSE LET r == zcomp_strm_single_create(heap \cup {CompObj}, o)
            IN  IF r.error # 0
                THEN /\ heap' = r.heap \ {CompObj}
                     /\ ret' = [op |-> "create", val |-> r.error]
                     /\ UNCHANGED <<mode, max_strm, avail_strm, idle_strm, single_zstrm, hist>>
                ELSE /\ heap' = r.heap
                     /\ mode' = "single"
                     /\ single_zstrm' = r.zstrm
                     /\ ret' = [op |-> "create", val |-> 0]
                     /\ hist' = "fresh"
                     /\ UNCHANGED <<max_strm, avail_strm, idle_strm>>

\* zcomp_create(compress, max_strm), with the outcomes o of its allocations
zcomp_create(compress, max, o) ==
    /\ mode = "none"
    /\ UNCHANGED <<pc, zstrm, single_lock, dfree>>
    /\ IF find_backend(compress) = NoName
       THEN /\ ret' = [op |-> "create", val |-> 0 - EINVAL]
            /\ UNCHANGED <<mode, heap, max_strm, avail_strm, idle_strm, single_zstrm, hist>>
       ELSE IF ~o.comp
       THEN /\ ret' = [op |-> "create", val |-> 0 - ENOMEM]
            /\ UNCHANGED <<mode, heap, max_strm, avail_strm, idle_strm, single_zstrm, hist>>
       ELSE IF max > 1
       THEN LET r == zcomp_strm_multi_create(heap \cup {CompObj}, max, o)
            IN  IF r.error # 0
                THEN /\ heap' = r.heap \ {CompObj}
                     /\ ret' = [op |-> "create", val |-> r.error]
                     /\ UNCHANGED <<mode, max_strm, avail_strm, idle_strm, single_zstrm, hist>>
                ELSE /\ heap' = r.heap
                     /\ mode' = "multi"
                     /\ max_strm' = r.max_strm
                     /\ avail_strm' = r.avail_strm
                     /\ idle_strm' = r.idle_strm
                     /\ ret' = [op |-> "create", val |-> 0]
                     /\ hist' = "fresh"
                     /\ UNCHANGED single_zstrm
       ELSE LET r == zcomp_strm_single_create(heap \cup {CompObj}, o)
            IN  IF r.error # 0
                THEN /\ heap' = r.heap \ {CompObj}
                     /\ ret' = [op |-> "create", val |-> r.error]
                     /\ UNCHANGED <<mode, max_strm, avail_strm, idle_strm, single_zstrm, hist>>
                ELSE /\ heap' = r.heap
                     /\ mode' = "single"
                     /\ single_zstrm' = r.zstrm
                     /\ ret' = [op |-> "create", val |-> 0]
                     /\ hist' = "fresh"
                     /\ UNCHANGED <<max_strm, avail_strm, idle_strm>>

\* ------------------------------------------------------------- destruction
\* zcomp_strm_multi_destroy that frees the first idle stream only
zcomp_strm_multi_destroy_first(h, idle) ==
    (IF idle = <<>> THEN h ELSE zcomp_strm_free(h, Head(idle))) \ {ZsObj}

\* zcomp_strm_multi_destroy: free every idle stream, then the pool structure
zcomp_strm_multi_destroy(h, idle) ==
    (h \ UNION {StrmParts(idle[i]) : i \in 1..Len(idle)}) \ {ZsObj}

\* zcomp_strm_single_destroy
zcomp_strm_single_destroy(h, s) == zcomp_strm_free(h, s) \ {ZsObj}

\* zcomp_destroy; its caller guarantees that no thread is in a call or holds a stream
zcomp_destroy ==
    /\ mode # "none"
    /\ \A t \in Threads : pc[t] = "out"
    /\ heap' = (IF mode = "multi"
                THEN zcomp_strm_multi_destroy(heap, idle_strm)
                ELSE zcomp_strm_single_destroy(heap, single_zstrm)) \ {CompObj}
    /\ dfree' = (dfree \/ (IF mode = "multi" THEN FreeFault(heap, idle_strm)
                           ELSE FreeFault(heap, <<single_zstrm>>)))
    /\ mode' = "none"
    /\ max_strm' = 0
    /\ avail_strm' = 0
    /\ idle_strm' = <<>>
    /\ single_zstrm' = NULL
    /\ single_lock' = FALSE
    /\ hist' = "none"
    /\ UNCHANGED <<pc, zstrm, ret>>

\* the threads that hold a stream zcomp_stream_get returned to them
Holding == {t \in Threads : pc[t] = "holding"}

\* ------------------------------------------------------------------ facade
\* zcomp_stream_get: thread t enters comp->strm_find
zcomp_stream_get(t) ==
    /\ mode # "none"
    /\ pc[t] = "out"
    /\ pc' = [pc EXCEPT ![t] = "find"]
    /\ UNCHANGED <<mode, heap, max_strm, avail_strm, idle_strm, single_zstrm,
                   single_lock, zstrm, ret, hist, dfree>>

\* ------------------------------------------------------ single-stream pool
\* zcomp_strm_single_find that does not wait for the mutex
zcomp_strm_single_find_no_mutex(t) ==
    /\ mode = "single"
    /\ pc[t] = "find"
    /\ single_lock' = TRUE
    /\ zstrm' = [zstrm EXCEPT ![t] = single_zstrm]
    /\ pc' = [pc EXCEPT ![t] = "holding"]
    /\ UNCHANGED <<mode, heap, max_strm, avail_strm, idle_strm, single_zstrm,
                   ret, hist, dfree>>

\* zcomp_strm_single_find: mutex_lock returns once the mutex is free
zcomp_strm_single_find(t) ==
    /\ mode = "single"
    /\ pc[t] = "find"
    /\ ~single_lock
    /\ single_lock' = TRUE
    /\ zstrm' = [zstrm EXCEPT ![t] = single_zstrm]
    /\ pc' = [pc EXCEPT ![t] = "holding"]
    /\ UNCHANGED <<mode, heap, max_strm, avail_strm, idle_strm, single_zstrm,
                   ret, hist, dfree>>

\* zcomp_strm_single_release: mutex_unlock
zcomp_strm_single_release(t) ==
    /\ mode = "single"
    /\ pc[t] = "holding"
    /\ single_lock' = FALSE
    /\ zstrm' = [zstrm EXCEPT ![t] = NULL]
    /\ pc' = [pc EXCEPT ![t] = "out"]
    /\ hist' = (IF hist = "fresh" THEN "used" ELSE hist)
    /\ UNCHANGED <<mode, heap, max_strm, avail_strm, idle_strm, single_zstrm,
                   ret, dfree>>

\* zcomp_strm_single_set_max_streams that reports success
zcomp_strm_single_set_max_streams_true(num_strm) ==
    /\ ret' = [op |-> "set_max_streams", val |-> 1]
    /\ hist' = "used"
    /\ UNCHANGED <<mode, heap, max_strm, avail_strm, idle_strm, single_zstrm,
                   single_lock, pc, zstrm, dfree>>

\* zcomp_strm_single_set_max_streams
zcomp_strm_single_set_max_streams(num_strm) ==
    /\ ret' = [op |-> "set_max_streams", val |-> 0]
    /\ hist' = "used"
    /\ UNCHANGED <<mode, heap, max_strm, avail_strm, idle_strm, single_zstrm,
                   single_lock, pc, zstrm, dfree>>

\* ------------------------------------------------------- multi-stream pool
\* zcomp_strm_multi_find_locked that hands out the first idle stream and leaves it
\* on the idle list (the list_del is missing)
zcomp_strm_multi_find_locked_no_list_del(t) ==
    /\ mode = "multi"
    /\ pc[t] = "find"
    /\ IF idle_strm # <<>>
       THEN /\ zstrm' = [zstrm EXCEPT ![t] = Head(idle_strm)]
            /\ pc' = [pc EXCEPT ![t] = "holding"]
            /\ UNCHANGED <<avail_strm, idle_strm>>
       ELSE IF avail_strm >= max_strm
       THEN /\ pc' = [pc EXCEPT ![t] = "wait_limit"]
            /\ UNCHANGED <<zstrm, idle_strm, avail_strm>>
       ELSE /\ avail_strm' = avail_strm + 1
            /\ pc' = [pc EXCEPT ![t] = "alloc"]
            /\ UNCHANGED <<zstrm, idle_strm>>
    /\ UNCHANGED <<mode, heap, max_strm, single_zstrm, single_lock, ret, hist, dfree>>

\* zcomp_strm_multi_find_locked whose limit test is off by one (> for >=)
zcomp_strm_multi_find_locked_off_by_one(t) ==
    /\ mode = "multi"
    /\ pc[t] = "find"
    /\ IF idle_strm # <<>>
       THEN /\ zstrm' = [zstrm EXCEPT ![t] = Head(idle_strm)]
            /\ idle_strm' = Tail(idle_strm)
            /\ pc' = [pc EXCEPT ![t] = "holding"]
            /\ UNCHANGED avail_strm
       ELSE IF avail_strm > max_strm
       THEN /\ pc' = [pc EXCEPT ![t] = "wait_limit"]
            /\ UNCHANGED <<zstrm, idle_strm, avail_strm>>
       ELSE /\ avail_strm' = avail_strm + 1
            /\ pc' = [pc EXCEPT ![t] = "alloc"]
            /\ UNCHANGED <<zstrm, idle_strm>>
    /\ UNCHANGED <<mode, heap, max_strm, single_zstrm, single_lock, ret, hist, dfree>>

\* zcomp_strm_multi_find_locked that goes to wait one slot early
zcomp_strm_multi_find_locked_early_limit(t) ==
    /\ mode = "multi"
    /\ pc[t] = "find"
    /\ IF idle_strm # <<>>
       THEN /\ zstrm' = [zstrm EXCEPT ![t] = Head(idle_strm)]
            /\ idle_strm' = Tail(idle_strm)
            /\ pc' = [pc EXCEPT ![t] = "holding"]
            /\ UNCHANGED avail_strm
       ELSE IF avail_strm + 1 >= max_strm
       THEN /\ pc' = [pc EXCEPT ![t] = "wait_limit"]
            /\ UNCHANGED <<zstrm, idle_strm, avail_strm>>
       ELSE /\ avail_strm' = avail_strm + 1
            /\ pc' = [pc EXCEPT ![t] = "alloc"]
            /\ UNCHANGED <<zstrm, idle_strm>>
    /\ UNCHANGED <<mode, heap, max_strm, single_zstrm, single_lock, ret, hist, dfree>>

\* zcomp_strm_multi_find_locked that grows the pool before it looks at the idle list
zcomp_strm_multi_find_locked_grow_first(t) ==
    /\ mode = "multi"
    /\ pc[t] = "find"
    /\ IF avail_strm < max_strm
       THEN /\ avail_strm' = avail_strm + 1
            /\ pc' = [pc EXCEPT ![t] = "alloc"]
            /\ UNCHANGED <<zstrm, idle_strm>>
       ELSE IF idle_strm # <<>>
       THEN /\ zstrm' = [zstrm EXCEPT ![t] = Head(idle_strm)]
            /\ idle_strm' = Tail(idle_strm)
            /\ pc' = [pc EXCEPT ![t] = "holding"]
            /\ UNCHANGED avail_strm
       ELSE /\ pc' = [pc EXCEPT ![t] = "wait_limit"]
            /\ UNCHANGED <<zstrm, idle_strm, avail_strm>>
    /\ UNCHANGED <<mode, heap, max_strm, single_zstrm, single_lock, ret, hist, dfree>>

\* zcomp_strm_multi_find, the section under strm_lock at the top of the loop:
\* take the first idle stream, or go and wait at the limit, or reserve a slot
zcomp_strm_multi_find_locked(t) ==
    /\ mode = "multi"
    /\ pc[t] = "find"
    /\ IF idle_strm # <<>>
       THEN /\ zstrm' = [zstrm EXCEPT ![t] = Head(idle_strm)]
            /\ idle_strm' = Tail(idle_strm)
            /\ pc' = [pc EXCEPT ![t] = "holding"]
            /\ UNCHANGED avail_strm
       ELSE IF avail_strm >= max_strm
       THEN /\ pc' = [pc EXCEPT ![t] = "wait_limit"]
            /\ UNCHANGED <<zstrm, idle_strm, avail_strm>>
       ELSE /\ avail_strm' = avail_strm + 1
            /\ pc' = [pc EXCEPT ![t] = "alloc"]
            /\ UNCHANGED <<zstrm, idle_strm>>
    /\ UNCHANGED <<mode, heap, max_strm, single_zstrm, single_lock, ret, hist, dfree>>

\* zcomp_strm_multi_find, outside the lock: zcomp_strm_alloc with outcome o,
\* then return the new stream or go on to give the reservation back
zcomp_strm_multi_find_alloc(t, o) ==
    /\ mode = "multi"
    /\ pc[t] = "alloc"
    /\ LET r == zcomp_strm_alloc(heap, o)
       IN  /\ heap' = r.heap
           /\ zstrm' = [zstrm EXCEPT ![t] = r.zstrm]
           /\ pc' = [pc EXCEPT ![t] = IF r.zstrm = NULL THEN "alloc_failed" ELSE "holding"]
    /\ UNCHANGED <<mode, max_strm, avail_strm, idle_strm, single_zstrm, single_lock,
                   ret, hist, dfree>>

\* zcomp_strm_multi_find_unreserve that keeps the reservation (no avail_strm--)
zcomp_strm_multi_find_unreserve_keeps(t) ==
    /\ mode = "multi"
    /\ pc[t] = "alloc_failed"
    /\ pc' = [pc EXCEPT ![t] = "wait_nomem"]
    /\ UNCHANGED <<mode, heap, max_strm, avail_strm, idle_strm, single_zstrm,
                   single_lock, zstrm, ret, hist, dfree>>

\* zcomp_strm_multi_find, the allocation failed: give the reservation back under the lock
zcomp_strm_multi_find_unreserve(t) ==
    /\ mode = "multi"
    /\ pc[t] = "alloc_failed"
    /\ avail_strm' = avail_strm - 1
    /\ pc' = [pc EXCEPT ![t] = "wait_nomem"]
    /\ UNCHANGED <<mode, heap, max_strm, idle_strm, single_zstrm, single_lock,
                   zstrm, ret, hist, dfree>>

\* wait_event(zs->strm_wait, !list_empty(&zs->idle_strm)): the condition is tested
\* with the thread already on the wait queue; it goes back to the top of the loop
\* when the list is not empty and sleeps until the next wake_up when it is
zcomp_strm_multi_find_wait(t) ==
    /\ mode = "multi"
    /\ pc[t] \in {"wait_limit", "wait_nomem"}
    /\ pc' = [pc EXCEPT ![t] = IF idle_strm # <<>> THEN "find"
                                ELSE IF pc[t] = "wait_limit" THEN "sleep_limit"
                                ELSE "sleep_nomem"]
    /\ UNCHANGED <<mode, heap, max_strm, avail_strm, idle_strm, single_zstrm,
                   single_lock, zstrm, ret, hist, dfree>>

\* zcomp_strm_multi_release_locked that always puts the stream back on the idle list
zcomp_strm_multi_release_locked_always_idle(t) ==
    /\ mode = "multi"
    /\ pc[t] = "holding"
    /\ idle_strm' = <<zstrm[t]>> \o idle_strm
    /\ zstrm' = [zstrm EXCEPT ![t] = NULL]
    /\ pc' = [pc EXCEPT ![t] = "rel_wake"]
    /\ hist' = (IF hist = "fresh" THEN "used" ELSE hist)
    /\ UNCHANGED <<mode, heap, max_strm, avail_strm, single_zstrm, single_lock,
                   ret, dfree>>

\* zcomp_strm_multi_release_locked that keeps a stream only below the limit (< for <=)
zcomp_strm_multi_release_locked_lt(t) ==
    /\ mode = "multi"
    /\ pc[t] = "holding"
    /\ IF avail_strm < max_strm
       THEN /\ idle_strm' = <<zstrm[t]>> \o idle_strm
            /\ zstrm' = [zstrm EXCEPT ![t] = NULL]
            /\ pc' = [pc EXCEPT ![t] = "rel_wake"]
            /\ UNCHANGED avail_strm
       ELSE /\ avail_strm' = avail_strm - 1
            /\ pc' = [pc EXCEPT ![t] = "rel_free"]
            /\ UNCHANGED <<idle_strm, zstrm>>
    /\ hist' = (IF hist = "fresh" THEN "used" ELSE hist)
    /\ UNCHANGED <<mode, heap, max_strm, single_zstrm, single_lock, ret, dfree>>

\* zcomp_strm_multi_release_locked that frees a stream without avail_strm--
zcomp_strm_multi_release_locked_no_dec(t) ==
    /\ mode = "multi"
    /\ pc[t] = "holding"
    /\ IF avail_strm <= max_strm
       THEN /\ idle_strm' = <<zstrm[t]>> \o idle_strm
            /\ zstrm' = [zstrm EXCEPT ![t] = NULL]
            /\ pc' = [pc EXCEPT ![t] = "rel_wake"]
       ELSE /\ pc' = [pc EXCEPT ![t] = "rel_free"]
            /\ UNCHANGED <<idle_strm, zstrm>>
    /\ hist' = (IF hist = "fresh" THEN "used" ELSE hist)
    /\ UNCHANGED <<mode, heap, max_strm, avail_strm, single_zstrm, single_lock, ret, dfree>>

\* zcomp_strm_multi_release_locked that puts the stream on the idle list and
\* frees it as well
zcomp_strm_multi_release_locked_idle_and_free(t) ==
    /\ mode = "multi"
    /\ pc[t] = "holding"
    /\ idle_strm' = <<zstrm[t]>> \o idle_strm
    /\ pc' = [pc EXCEPT ![t] = "rel_free"]
    /\ hist' = (IF hist = "fresh" THEN "used" ELSE hist)
    /\ UNCHANGED <<mode, heap, max_strm, avail_strm, zstrm, single_zstrm, single_lock,
                   ret, dfree>>

\* zcomp_strm_multi_release, the section under strm_lock
zcomp_strm_multi_release_locked(t) ==
    /\ mode = "multi"
    /\ pc[t] = "holding"
    /\ IF avail_strm <= max_strm
       THEN /\ idle_strm' = <<zstrm[t]>> \o idle_strm
            /\ zstrm' = [zstrm EXCEPT ![t] = NULL]
            /\ pc' = [pc EXCEPT ![t] = "rel_wake"]
            /\ UNCHANGED avail_strm
       ELSE /\ avail_strm' = avail_strm - 1
            /\ pc' = [pc EXCEPT ![t] = "rel_free"]
            /\ UNCHANGED <<idle_strm, zstrm>>
    /\ hist' = (IF hist = "fresh" THEN "used" ELSE hist)
    /\ UNCHANGED <<mode, heap, max_strm, single_zstrm, single_lock, ret, dfree>>

\* wake_up(&zs->strm_wait): every sleeper tests its condition again
wake_up(p) ==
    [u \in Threads |-> IF p[u] = "sleep_limit" THEN "wait_limit"
                       ELSE IF p[u] = "sleep_nomem" THEN "wait_nomem"
                       ELSE p[u]]

\* zcomp_strm_multi_release after list_add and spin_unlock: wake_up, return
zcomp_strm_multi_release_wake(t) ==
    /\ mode = "multi"
    /\ pc[t] = "rel_wake"
    /\ pc' = wake_up([pc EXCEPT ![t] = "out"])
    /\ UNCHANGED <<mode, heap, max_strm, avail_strm, idle_strm, single_zstrm,
                   single_lock, zstrm, ret, hist, dfree>>

\* zcomp_strm_multi_release_free that calls wake_up after it has freed the stream
zcomp_strm_multi_release_free_wakes(t) ==
    /\ mode = "multi"
    /\ pc[t] = "rel_free"
    /\ heap' = zcomp_strm_free(heap, zstrm[t])
    /\ dfree' = (dfree \/ FreeFault(heap, <<zstrm[t]>>))
    /\ zstrm' = [zstrm EXCEPT ![t] = NULL]
    /\ pc' = wake_up([pc EXCEPT ![t] = "out"])
    /\ UNCHANGED <<mode, max_strm, avail_strm, idle_strm, single_zstrm, single_lock,
                   ret, hist>>

\* zcomp_strm_multi_release after avail_strm-- and spin_unlock: zcomp_strm_free
zcomp_strm_multi_release_free(t) ==
    /\ mode = "multi"
    /\ pc[t] = "rel_free"
    /\ heap' = zcomp_strm_free(heap, zstrm[t])
    /\ dfree' = (dfree \/ FreeFault(heap, <<zstrm[t]>>))
    /\ zstrm' = [zstrm EXCEPT ![t] = NULL]
    /\ pc' = [pc EXCEPT ![t] = "out"]
    /\ UNCHANGED <<mode, max_strm, avail_strm, idle_strm, single_zstrm, single_lock,
                   ret, hist>>

\* shrink_idle whose loop test is off by one (>= for >)
RECURSIVE shrink_idle_ge(_, _)
shrink_idle_ge(p, num_strm) ==
    IF p.avail_strm >= num_strm /\ p.idle_strm # <<>>
    THEN shrink_idle_ge([heap |-> zcomp_strm_free(p.heap, Head(p.idle_strm)),
                         idle_strm |-> Tail(p.idle_strm),
                         avail_strm |-> p.avail_strm - 1,
                         freed |-> Append(p.freed, Head(p.idle_strm))], num_strm)
    ELSE p

\* the loop of zcomp_strm_multi_set_max_streams: while avail_strm > num_strm and
\* the idle list is not empty, unlink and free the first idle stream
RECURSIVE shrink_idle(_, _)
shrink_idle(p, num_strm) ==
    IF p.avail_strm > num_strm /\ p.idle_strm # <<>>
    THEN shrink_idle([heap |-> zcomp_strm_free(p.heap, Head(p.idle_strm)),
                      idle_strm |-> Tail(p.idle_strm),
                      avail_strm |-> p.avail_strm - 1,
                      freed |-> Append(p.freed, Head(p.idle_strm))], num_strm)
    ELSE p

\* zcomp_strm_multi_set_max_streams that, with the idle list used up and avail_strm
\* still above num_strm, goes on to free a stream a thread holds
zcomp_strm_multi_set_max_streams_revokes(num_strm) ==
    LET p == shrink_idle([heap |-> heap, idle_strm |-> idle_strm,
                          avail_strm |-> avail_strm, freed |-> <<>>], num_strm)
        over == p.avail_strm > num_strm /\ Holding # {}
        v == zstrm[CHOOSE t \in Holding : TRUE]
    IN  /\ max_strm' = num_strm
        /\ heap' = (IF over THEN zcomp_strm_free(p.heap, v) ELSE p.heap)
        /\ idle_strm' = p.idle_strm
        /\ avail_strm' = (IF over THEN p.avail_strm - 1 ELSE p.avail_strm)
        /\ dfree' = (dfree \/ FreeFault(heap, p.freed))
        /\ ret' = [op |-> "set_max_streams", val |-> 1]
        /\ hist' = (IF num_strm < max_strm /\ Cardinality(Holding) > num_strm
                     THEN "shrunk" ELSE "used")
        /\ UNCHANGED <<mode, single_zstrm, single_lock, pc, zstrm>>

\* zcomp_strm_multi_set_max_streams, all of it under strm_lock
zcomp_strm_multi_set_max_streams(num_strm) ==
    LET p == shrink_idle([heap |-> heap, idle_strm |-> idle_strm,
                          avail_strm |-> avail_strm, freed |-> <<>>], num_strm)
    IN  /\ max_strm' = num_strm
        /\ heap' = p.heap
        /\ idle_strm' = p.idle_strm
        /\ avail_strm' = p.avail_strm
        /\ dfree' = (dfree \/ FreeFault(heap, p.freed))
        /\ ret' = [op |-> "set_max_streams", val |-> 1]
        /\ hist' = (IF num_strm < max_strm /\ Cardinality(Holding) > num_strm
                     THEN "shrunk" ELSE "used")
        /\ UNCHANGED <<mode, single_zstrm, single_lock, pc, zstrm>>

\* zcomp_set_max_streams: comp->set_max_streams
zcomp_set_max_streams(num_strm) ==
    /\ mode # "none"
    /\ IF mode = "multi"
       THEN zcomp_strm_multi_set_max_streams(num_strm)
       ELSE zcomp_strm_single_set_max_streams(num_strm)

\* zcomp_stream_put: comp->strm_release
zcomp_stream_put(t) ==
    \/ zcomp_strm_single_release(t)
    \/ zcomp_strm_multi_release_locked(t)

\* --------------------------------------------------------- specifications
Next ==
    \/ /\ mode = "none"
       /\ \E compress \in Names, max \in CreateArgs :
              \E o \in CreateOutcomes(heap) : zcomp_create(compress, max, o)
    \/ zcomp_destroy
    \/ \E num_strm \in NumStrms : zcomp_set_max_streams(num_strm)
    \/ \E t \in Threads : zcomp_stream_get(t)
    \/ \E t \in Threads : zcomp_strm_single_find(t)
    \/ \E t \in Threads : zcomp_strm_multi_find_locked(t)
    \/ \E t \in Threads :
           /\ pc[t] = "alloc"
           /\ \E o \in AllocOutcomes(heap) : zcomp_strm_multi_find_alloc(t, o)
    \/ \E t \in Threads : zcomp_strm_multi_find_unreserve(t)
    \/ \E t \in Threads : zcomp_strm_multi_find_wait(t)
    \/ \E t \in Threads : zcomp_stream_put(t)
    \/ \E t \in Threads : zcomp_strm_multi_release_wake(t)
    \/ \E t \in Threads : zcomp_strm_multi_release_free(t)

Spec == Init /\ [][Next]_vars

\* the same program when nobody calls zcomp_set_max_streams
NextFixed ==
    \/ /\ mode = "none"
       /\ \E compress \in Names, max \in CreateArgs :
              \E o \in CreateOutcomes(heap) : zcomp_create(compress, max, o)
    \/ zcomp_destroy
    \/ \E t \in Threads : zcomp_stream_get(t)
    \/ \E t \in Threads : zcomp_strm_single_find(t)
    \/ \E t \in Threads : zcomp_strm_multi_find_locked(t)
    \/ \E t \in Threads :
           /\ pc[t] = "alloc"
           /\ \E o \in AllocOutcomes(heap) : zcomp_strm_multi_find_alloc(t, o)
    \/ \E t \in Threads : zcomp_strm_multi_find_unreserve(t)
    \/ \E t \in Threads : zcomp_strm_multi_find_wait(t)
    \/ \E t \in Threads : zcomp_stream_put(t)
    \/ \E t \in Threads : zcomp_strm_multi_release_wake(t)

SpecFixed == Init /\ [][NextFixed]_vars

\* the steps thread t takes by itself once it is inside zcomp_stream_get or holds
\* a stream: the rest of the call, and the zcomp_stream_put that follows
ThreadStep(t) ==
    \/ zcomp_strm_single_find(t)
    \/ zcomp_strm_multi_find_locked(t)
    \/ /\ pc[t] = "alloc"
       /\ \E o \in AllocOutcomes(heap) : zcomp_strm_multi_find_alloc(t, o)
    \/ zcomp_strm_multi_find_unreserve(t)
    \/ zcomp_strm_multi_find_wait(t)
    \/ zcomp_stream_put(t)
    \/ zcomp_strm_multi_release_wake(t)
    \/ zcomp_strm_multi_release_free(t)

\* the program with a scheduler that lets every runnable thread run in the end
\* and callers that put back every stream they got; when zcomp_create,
\* zcomp_destroy, zcomp_set_max_streams and zcomp_stream_get are called is free
SpecFair == Init /\ [][Next]_vars /\ \A t \in Threads : WF_vars(ThreadStep(t))

TypeOK ==
    /\ mode \in {"none", "single", "multi"}
    /\ max_strm \in 0..MaxCap
    /\ avail_strm \in Int
    /\ \A i \in 1..Len(idle_strm) : idle_strm[i] \in StrmIds
    /\ single_zstrm \in StrmIds \cup {NULL}
    /\ single_lock \in BOOLEAN
    /\ pc \in [Threads -> {"out", "find", "wait_limit", "sleep_limit", "alloc",
                           "alloc_failed", "wait_nomem", "sleep_nomem", "holding",
                           "rel_wake", "rel_free"}]
    /\ zstrm \in [Threads -> StrmIds \cup {NULL}]
    /\ hist \in {"none", "fresh", "shrunk", "used"}
    /\ dfree \in BOOLEAN

\* -------------------------------------------------------------- properties
\* the idle list as a set
IdleSet == {idle_strm[i] : i \in 1..Len(idle_strm)}

\* the capacity the pool was created with or last set to
Capacity == IF mode = "multi" THEN max_strm ELSE 1

\* C1: in the multi-stream pool each stream is held by at most one thread, and
\* no stream is on the idle list while a thread holds it (nor twice on the list).
C1_MutualExclusion ==
    mode = "multi" =>
        /\ \A t1, t2 \in Threads :
               (t1 # t2 /\ zstrm[t1] # NULL) => zstrm[t1] # zstrm[t2]
        /\ \A t \in Threads : zstrm[t] \notin IdleSet
        /\ Cardinality(IdleSet) = Len(idle_strm)

\* two threads hold streams, got from the idle list and by growth, and a third
\* thread is back at the top of the loop of zcomp_strm_multi_find
C1_Witness ==
    /\ mode = "multi"
    /\ Cardinality(Holding) = 2
    /\ \E t \in Threads : pc[t] = "find"

\* C2: when nobody changes the capacity, no more threads hold a stream at the
\* same time than the capacity the pool was created with.
C2_AtMostCapacityHeld ==
    mode # "none" => Cardinality(Holding) <= Capacity

\* a pool of capacity 2, both streams held, a third thread asleep at the limit
C2_Witness ==
    /\ mode = "multi"
    /\ max_strm = 2
    /\ Cardinality(Holding) = 2
    /\ \E t \in Threads : pc[t] = "sleep_limit"

Min(a, b) == IF a <= b THEN a ELSE b
Max(a, b) == IF a >= b THEN a ELSE b

\* thread t waits in zcomp_stream_get for another thread to release a stream
Blocked(t) ==
    IF mode = "multi"
    THEN pc[t] \in {"wait_limit", "sleep_limit", "wait_nomem", "sleep_nomem"}
    ELSE mode = "single" /\ pc[t] = "find" /\ single_lock

\* the threads that have called zcomp_stream_get and not finished zcomp_stream_put
InCall == {t \in Threads : pc[t] # "out"}

\* no thread's growth allocation has failed (such a thread waits until a release)
NoGrowthFailure ==
    \A t \in Threads : pc[t] \notin {"alloc_failed", "wait_nomem", "sleep_nomem"}

\* C3 as stated: on a fresh pool of capacity n, as long as no more than n threads
\* have called Acquire none of them waits, whatever the allocations do; and
\* while n streams are held no other thread gets one before a Release.
C3_Original ==
    /\ []((hist = "fresh" /\ Cardinality(InCall) <= Capacity)
             => \A t \in Threads : ~Blocked(t))
    /\ [][(hist = "fresh" /\ hist' = "fresh" /\ Cardinality(Holding) = Capacity)
             => Holding' \subseteq Holding]_vars

\* C3, amended: on a fresh pool of capacity n, as long as no more than n threads
\* have called Acquire and no growth allocation has failed, none of them waits;
\* a thread whose growth allocation failed keeps waiting until a Release; and
\* while n streams are held no other thread gets one before a Release.
C3_FreshPoolBlocking ==
    /\ []((hist = "fresh" /\ Cardinality(InCall) <= Capacity /\ NoGrowthFailure)
             => \A t \in Threads : ~Blocked(t))
    /\ [][(hist = "fresh" /\ hist' = "fresh")
             => \A t \in Threads :
                    pc[t] \in {"wait_nomem", "sleep_nomem"}
                        => pc'[t] \in {"wait_nomem", "sleep_nomem"}]_vars
    /\ [][(hist = "fresh" /\ hist' = "fresh" /\ Cardinality(Holding) = Capacity)
             => Holding' \subseteq Holding]_vars

\* a fresh pool of capacity 2 with both streams held and a third thread asleep
C3_Witness ==
    /\ hist = "fresh"
    /\ mode = "multi"
    /\ Cardinality(Holding) = max_strm
    /\ \E t \in Threads : pc[t] = "sleep_limit"

\* C4: Acquire on the multi-stream pool never fails: every stream a thread holds
\* is allocated; the allocation step ends with a stream or, without touching
\* avail_strm, on the failure path; the failure path takes exactly 1 off
\* avail_strm and goes to wait; and the wait ends only with the idle list
\* non-empty, at the top of the loop.
C4_AcquireNeverFails ==
    /\ [](mode = "multi" => \A t \in Holding : zstrm[t] \in Allocated(heap))
    /\ [][\A t \in Threads : (pc[t] = "alloc" /\ pc'[t] # "alloc")
             => \/ pc'[t] = "holding" /\ zstrm'[t] \in Allocated(heap')
                \/ pc'[t] = "alloc_failed" /\ zstrm'[t] = NULL
                       /\ avail_strm' = avail_strm]_vars
    /\ [][\A t \in Threads : (pc[t] = "alloc_failed" /\ pc'[t] # "alloc_failed")
             => /\ pc'[t] = "wait_nomem"
                /\ zstrm'[t] = NULL
                /\ avail_strm' = avail_strm - 1]_vars
    /\ [][\A t \in Threads :
             (pc[t] \in {"wait_nomem", "sleep_nomem"}
                  /\ pc'[t] \notin {"wait_nomem", "sleep_nomem"})
             => pc'[t] = "find" /\ idle_strm # <<>>]_vars

\* a thread whose growth allocation failed is about to find the idle list non-empty
C4_Witness ==
    /\ mode = "multi"
    /\ idle_strm # <<>>
    /\ \E t \in Threads : pc[t] = "wait_nomem"

\* a step of zcomp_set_max_streams that lowers max_strm of a multi-stream pool
ShrinkStep == mode = "multi" /\ mode' = "multi" /\ max_strm' < max_strm

\* C5 as stated: lowering the capacity to n2 leaves min(idleBefore, n2) idle streams.
C5_Original ==
    [][ShrinkStep => Len(idle_strm') = Min(Len(idle_strm), max_strm')]_vars

\* C5, amended: lowering the capacity to n2 frees min(idleBefore, max(0, liveBefore - n2))
\* idle streams, and leaves the others idle.
C5_IdleAfterShrink ==
    [][ShrinkStep => Len(idle_strm') =
           Len(idle_strm) - Min(Len(idle_strm), Max(0, avail_strm - max_strm'))]_vars

\* a shrink has left more live streams than the capacity, none of them idle
C5_Witness ==
    /\ mode = "multi"
    /\ hist = "shrunk"
    /\ avail_strm > max_strm
    /\ idle_strm = <<>>

\* no thread holds a stream or is in the middle of releasing one
AllReleased == \A t \in Threads : pc[t] \notin {"holding", "rel_wake", "rel_free"}

\* C6: after a shrink to n2 with more than n2 streams held, once every held
\* stream has been released (and max_strm was not set again), live equals n2.
C6_ConvergesToCapacity ==
    (mode = "multi" /\ hist = "shrunk" /\ AllReleased) => avail_strm = max_strm

\* a step of zcomp_set_max_streams on a multi-stream pool
SetStep ==
    mode = "multi" /\ mode' = "multi" /\ (max_strm' # max_strm \/ ret' # ret \/ pc' = pc)

\* C7: zcomp_set_max_streams on a multi-stream pool leaves every thread and the
\* stream it holds alone; it removes streams from the head of the idle list,
\* frees exactly those and takes one off avail_strm for each.
C7_SetCapacityFrame ==
    [][SetStep =>
          /\ pc' = pc
          /\ zstrm' = zstrm
          /\ \A t \in Threads : zstrm[t] # NULL => StrmParts(zstrm[t]) \subseteq heap'
          /\ \E k \in 0..Len(idle_strm) :
                 /\ idle_strm' = SubSeq(idle_strm, k + 1, Len(idle_strm))
                 /\ avail_strm' = avail_strm - k
                 /\ heap' = heap \ UNION {StrmParts(idle_strm[i]) : i \in 1..k}]_vars

\* after a shrink two threads still hold their streams, above the capacity
C7_Witness ==
    /\ mode = "multi"
    /\ ret.op = "set_max_streams"
    /\ Cardinality(Holding) >= 2
    /\ Cardinality(Holding) > max_strm
    /\ \A t \in Holding : zstrm[t] \in Allocated(heap)

\* C8: zcomp_set_max_streams on a single-stream pool returns false and changes
\* nothing (one stream, one holder at most); on a multi-stream pool it returns true.
C8_SetMaxStreamsReturn ==
    /\ []((mode # "none" /\ ret.op = "set_max_streams")
             => ret.val = (IF mode = "multi" THEN 1 ELSE 0))
    /\ [](mode = "single"
             => /\ Allocated(heap) = {single_zstrm}
                /\ Cardinality(Holding) <= 1
                /\ \A t \in Holding : zstrm[t] = single_zstrm)
    /\ [][(mode = "single" /\ mode' = "single" /\ (ret' # ret \/ pc' = pc))
             => /\ ret' = [op |-> "set_max_streams", val |-> 0]
                /\ UNCHANGED <<mode, heap, max_strm, avail_strm, idle_strm,
                               single_zstrm, single_lock, pc, zstrm>>]_vars

\* set_max_streams was refused on a single-stream pool whose stream is held
\* while another thread waits for the mutex
C8_Witness ==
    /\ mode = "single"
    /\ ret = [op |-> "set_max_streams", val |-> 0]
    /\ Holding # {}
    /\ \E t \in Threads : pc[t] = "find"

\* no thread is in the middle of a call
Quiescent == \A t \in Threads : pc[t] \in {"out", "holding"}

\* C9 as stated: live <= capacity in every quiescent state of a multi-stream pool.
C9_Original ==
    (mode = "multi" /\ Quiescent) => avail_strm <= max_strm

\* C9, amended: in every quiescent state of a multi-stream pool live <= capacity
\* when a stream is idle, and otherwise live is the number of streams held.
C9_QuiescentLive ==
    (mode = "multi" /\ Quiescent) =>
        /\ idle_strm # <<>> => avail_strm <= max_strm
        /\ idle_strm = <<>> => avail_strm = Cardinality(Holding)

\* a quiescent state with more streams held than the capacity
C9_Witness ==
    /\ mode = "multi"
    /\ Quiescent
    /\ avail_strm > max_strm
    /\ Cardinality(Holding) = avail_strm

\* the names the registry supports, with or without one trailing newline
Supported ==
    {lzo, lzo \o <<NL>>} \cup (IF CONFIG_ZRAM_LZ4_COMPRESS THEN {lz4, lz4 \o <<NL>>} ELSE {})

\* C10: a failing zcomp_create leaves nothing allocated: -EINVAL for a name the
\* registry does not support, -ENOMEM when one of its allocations fails, and
\* success exactly when the name is supported and no allocation fails.
C10_FailedCreateFreesAll ==
    [][mode = "none" => \A compress \in Names, max \in CreateArgs :
          \A o \in CreateOutcomes(heap) :
              zcomp_create(compress, max, o) =>
                  IF compress \notin Supported
                  THEN ret' = [op |-> "create", val |-> 0 - EINVAL]
                           /\ heap' = {} /\ mode' = "none"
                  ELSE IF ~(o.comp /\ o.zs /\ o.strm.strm # NULL /\ o.strm.tfm /\ o.strm.buf)
                  THEN ret' = [op |-> "create", val |-> 0 - ENOMEM]
                           /\ heap' = {} /\ mode' = "none"
                  ELSE ret' = [op |-> "create", val |-> 0] /\ mode' # "none"]_vars

\* zcomp_create has failed for want of memory and nothing is allocated
C10_Witness ==
    /\ mode = "none"
    /\ ret = [op |-> "create", val |-> 0 - ENOMEM]
    /\ heap = {}

\* C11: zcomp_destroy, called while no thread is inside a call or holds a
\* stream, leaves nothing allocated: every stream, the pool structure and the
\* zcomp itself are freed, whatever gets, puts and set_max_streams came before
\* it and for both pool kinds; and it frees nothing twice.
C11_DestroyFreesAll ==
    /\ [][(mode # "none" /\ mode' = "none") => (heap' = {} /\ dfree' = dfree)]_vars
    /\ [](mode = "none" => heap = {})
C11_Witness ==
    /\ mode = "none"
    /\ heap = {}
    /\ ret = [op |-> "set_max_streams", val |-> 1]
    /\ \E t \in Threads : zstrm[t] = NULL /\ pc[t] = "out"

\* C12: the single-stream pool serialises its callers. At most one thread is
\* between zcomp_stream_get and zcomp_stream_put; a thread that calls
\* zcomp_stream_get while the stream is held stays inside the call until the
\* holder has put it back; and every get returns the one stream that
\* zcomp_strm_single_create allocated, which stays the same for the pool's life.
C12_SingleSerialised ==
    /\ [](mode = "single" =>
             /\ Cardinality(Holding) <= 1
             /\ single_lock = (Holding # {})
             /\ single_zstrm \in Allocated(heap)
             /\ \A t \in Holding : zstrm[t] = single_zstrm)
    /\ [][(mode = "single" /\ Holding # {}) => Holding' \subseteq Holding]_vars
    /\ [][(mode = "single" /\ mode' = "single") => single_zstrm' = single_zstrm]_vars
C12_Witness ==
    /\ mode = "single"
    /\ hist = "used"
    /\ \E t \in Threads :
           /\ pc[t] = "holding"
           /\ zstrm[t] = single_zstrm
           /\ \A u \in Threads \ {t} : pc[u] = "find"

\* C13: zcomp_create chooses the pool kind once, from max_strm alone: a value
\* of at most 1 (0 and negative values too) gives the single-stream pool, a
\* value above 1 the multi-stream pool, which starts with the seed stream as
\* its only idle stream, avail_strm = 1 and max_strm as passed. Until
\* zcomp_destroy no call, zcomp_set_max_streams included, changes the kind.
C13_CreateSelectsKind ==
    /\ [][mode = "none" => \A compress \in Names, max \in CreateArgs :
             \A o \in CreateOutcomes(heap) :
                 (zcomp_create(compress, max, o) /\ mode' # "none") =>
                     IF max <= 1
                     THEN /\ mode' = "single"
                          /\ single_zstrm' \in Allocated(heap')
                          /\ idle_strm' = <<>>
                     ELSE /\ mode' = "multi"
                          /\ Len(idle_strm') = 1
                          /\ Head(idle_strm') \in Allocated(heap')
                          /\ avail_strm' = 1
                          /\ max_strm' = max]_vars
    /\ [][(mode # "none" /\ mode' # "none") => mode' = mode]_vars
C13_Witness ==
    /\ mode = "single"
    /\ ret = [op |-> "set_max_streams", val |-> 0]
    /\ single_zstrm \in Allocated(heap)
    /\ \E t \in Threads : pc[t] = "holding"

\* C14: zcomp_strm_multi_release decides on avail_strm and max_strm as they are
\* under the lock when it runs, and on nothing that came before. With
\* avail_strm <= max_strm the stream goes to the head of the idle list,
\* avail_strm stays and the sleepers are woken; otherwise avail_strm drops by
\* one and the stream is freed without being put on the idle list.
C14_ReleaseDecision ==
    /\ [][\A t \in Threads :
             (mode = "multi" /\ pc[t] = "holding" /\ pc'[t] # "holding") =>
                 IF avail_strm <= max_strm
                 THEN /\ idle_strm' = <<zstrm[t]>> \o idle_strm
                      /\ avail_strm' = avail_strm
                      /\ heap' = heap
                      /\ pc'[t] = "rel_wake"
                 ELSE /\ idle_strm' = idle_strm
                      /\ avail_strm' = avail_strm - 1
                      /\ pc'[t] = "rel_free"
                      /\ zstrm'[t] = zstrm[t]]_vars
    /\ [][\A t \in Threads :
             (pc[t] = "rel_wake" /\ pc'[t] # "rel_wake") =>
                 /\ \A u \in Threads : pc'[u] \notin {"sleep_limit", "sleep_nomem"}
                 /\ UNCHANGED <<idle_strm, avail_strm, heap>>]_vars
    /\ [][\A t \in Threads :
             (pc[t] = "rel_free" /\ pc'[t] # "rel_free") =>
                 /\ heap' = heap \ StrmParts(zstrm[t])
                 /\ zstrm[t] \notin IdleSet'
                 /\ UNCHANGED <<idle_strm, avail_strm>>]_vars
\* one release has freed its stream and another has put its stream back
C14_Witness ==
    /\ mode = "multi"
    /\ \E t, u \in Threads :
           /\ pc[t] = "rel_free"
           /\ pc[u] = "rel_wake"
           /\ zstrm[t] \in Allocated(heap)
           /\ idle_strm # <<>>

\* C15: the multi pool grows only through zcomp_strm_multi_find, which reserves
\* a slot (avail_strm++) only when, under one hold of the lock, the idle list
\* is empty and avail_strm < max_strm, so that a reservation never takes
\* avail_strm above the max_strm of that moment. The stream allocated for a
\* reservation is returned to the caller without passing through the idle
\* list; a stream gets onto the idle list only when its holder releases it.
C15_GrowthGated ==
    /\ [][(mode = "multi" /\ mode' = "multi" /\ avail_strm' > avail_strm) =>
             /\ idle_strm = <<>>
             /\ avail_strm < max_strm
             /\ avail_strm' = avail_strm + 1
             /\ avail_strm' <= max_strm
             /\ max_strm' = max_strm
             /\ \E t \in Threads : pc[t] = "find" /\ pc'[t] = "alloc"]_vars
    /\ [][\A t \in Threads :
             (pc[t] = "alloc" /\ pc'[t] = "holding") =>
                 /\ idle_strm' = idle_strm
                 /\ zstrm'[t] \notin IdleSet'
                 /\ zstrm'[t] \in Allocated(heap') \ Allocated(heap)]_vars
    /\ [][(mode = "multi" /\ mode' = "multi") =>
             \A s \in IdleSet' \ IdleSet :
                 \E t \in Threads :
                     pc[t] = "holding" /\ zstrm[t] = s /\ pc'[t] = "rel_wake"]_vars
\* a reservation has taken avail_strm to max_strm while another grown stream is held
C15_Witness ==
    /\ mode = "multi"
    /\ idle_strm = <<>>
    /\ avail_strm = max_strm
    /\ \E t, u, w \in Threads :
           /\ pc[t] = "alloc"
           /\ pc[u] = "holding"
           /\ pc[w] = "holding"
           /\ u # w

\* C17: a multi pool always has at least one allocated stream, on the idle list
\* or in the hands of a thread (a thread that is about to free its stream still
\* counts), and its max_strm is at least 1.
C17_AlwaysOneStream ==
    mode = "multi" =>
        /\ max_strm >= 1
        /\ (IdleSet \cup {zstrm[t] : t \in Threads}) \cap Allocated(heap) # {}

\* the threads inside zcomp_strm_multi_find
InAcquire ==
    {t \in Threads : mode = "multi" /\ pc[t] \in {"find", "wait_limit", "sleep_limit",
                         "alloc", "alloc_failed", "wait_nomem", "sleep_nomem"}}

\* C16: zcomp_strm_multi_find is deadlock-free. With max_strm >= 1, a fair
\* scheduler and every stream put back in the end, whenever a thread is inside
\* zcomp_stream_get on a multi pool some thread eventually returns from it with
\* a stream, whatever zcomp_set_max_streams calls and allocation outcomes come.
\* (a thread inside the call stays inside until it returns with a stream, so
\* this is: returns happen again and again, or in the end nobody is inside)
C16_AcquireDeadlockFree ==
    \/ []<><<\E t \in Threads : pc[t] # "holding" /\ pc'[t] = "holding">>_vars
    \/ <>[](InAcquire = {})

\* the threads that have reserved a slot (avail_strm++) and have neither got the
\* stream for it nor given the slot back
Reserving == {t \in Threads : pc[t] \in {"alloc", "alloc_failed"}}

\* C18: in every state of a multi pool avail_strm is the number of idle streams
\* plus the number of held streams plus the number of reservations in flight,
\* and it is never negative.
C18_LiveAccounting ==
    mode = "multi" =>
        /\ avail_strm = Len(idle_strm) + Cardinality(Holding) + Cardinality(Reserving)
        /\ avail_strm >= 0
        /\ Cardinality(IdleSet) = Len(idle_strm)
\* all three terms are positive at once
C18_Witness ==
    /\ mode = "multi"
    /\ idle_strm # <<>>
    /\ Holding # {}
    /\ \E t \in Threads : pc[t] = "alloc_failed"
    /\ avail_strm = 3

\* C19: a stream is freed at most once and is not used after it has been freed:
\* no free (by a release, by zcomp_set_max_streams or by zcomp_destroy) is of
\* a stream that is not allocated, every stream on the idle list and every
\* stream in the hands of a thread is allocated, with its private data and
\* its buffer, and so is the stream of the single pool.
C19_NoDoubleFreeNoUseAfterFree ==
    /\ ~dfree
    /\ \A s \in IdleSet : StrmParts(s) \subseteq heap
    /\ \A t \in Threads : zstrm[t] # NULL => StrmParts(zstrm[t]) \subseteq heap
    /\ mode = "single" => StrmParts(single_zstrm) \subseteq heap
    /\ mode = "none" => heap = {} /\ idle_strm = <<>> /\ single_zstrm = NULL
\* a shrink below the number of held streams has been worked off: a release has
\* freed its stream, and the streams that remain are idle or held
C19_Witness ==
    /\ mode = "multi"
    /\ hist = "shrunk"
    /\ avail_strm = max_strm
    /\ idle_strm # <<>>
    /\ Holding # {}
    /\ \A t \in Threads : pc[t] \in {"out", "holding"}

\* the threads asleep in wait_event, and those inside wait_event awake or asleep
Asleep == {t \in Threads : pc[t] \in {"sleep_limit", "sleep_nomem"}}
Waiting == {t \in Threads : pc[t] \in {"wait_limit", "sleep_limit", "wait_nomem", "sleep_nomem"}}

\* C20: a thread inside wait_event goes on only when the idle list is not empty.
\* A sleeper is woken only by the wake_up of a release that has put a stream
\* on the idle list; zcomp_set_max_streams wakes nobody, so that a thread that
\* waits at the limit keeps waiting after max_strm has gone up, without growing
\* the pool, until a release puts a stream on the idle list; a release that
\* frees its stream wakes nobody either.
C20_WaitersResumeOnIdleOnly ==
    /\ [][\A t \in Waiting : pc'[t] \notin {pc[t], "wait_limit", "sleep_limit",
                                           "wait_nomem", "sleep_nomem"} =>
              /\ idle_strm # <<>>
              /\ pc'[t] = "find"
              /\ UNCHANGED <<avail_strm, idle_strm, heap>>]_vars
    /\ [][\A t \in Asleep : pc'[t] # pc[t] =>
              /\ \E u \in Threads : pc[u] = "rel_wake" /\ pc'[u] = "out"
              /\ pc'[t] = (IF pc[t] = "sleep_limit" THEN "wait_limit" ELSE "wait_nomem")]_vars
    /\ [][SetStep => \A t \in Waiting : pc'[t] = pc[t]]_vars
    /\ [][\A u \in Threads : (pc[u] = "rel_free" /\ pc'[u] # "rel_free") =>
              \A t \in Waiting : pc'[t] = pc[t]]_vars
\* a thread sleeps at the limit although max_strm has since gone above avail_strm
C20_Witness ==
    /\ mode = "multi"
    /\ idle_strm = <<>>
    /\ avail_strm < max_strm
    /\ ret = [op |-> "set_max_streams", val |-> 1]
    /\ \E t \in Threads : pc[t] = "sleep_limit"
    /\ Holding # {}

====
